---- MODULE Spec2Model ----
(***************************************************************************)
(* Warehouse shift calculator: the calculation engine of                   *)
(* src/utils/calculations.js (parseTime, calculateDeviations,              *)
(* calculateExpectedAtTime, calculateRecommendations,                      *)
(* calculateLastHourIndicators), the update view                           *)
(* (src/components/UpdateData/UpdateData.js) that calls it and persists    *)
(* the actual counts, and the series the analytics view reads.             *)
(*                                                                         *)
(* JavaScript numbers are modelled as exact rationals extended with        *)
(* Infinity, -Infinity and NaN (the values a division by zero produces).   *)
(* Date objects of the current day are modelled as minutes since local     *)
(* midnight; a difference of two Dates divided by 1000*60*60 is that       *)
(* number of minutes over 60.                                              *)
(***************************************************************************)
EXTENDS Integers, Sequences, FiniteSets, TLC

(***************************************************************************)
(* Bounds of the explored inputs.                                          *)
(***************************************************************************)
\* settings times lie on a grid of 45-minute slots, 08:00 + i slots, i in 0..MaxSlot
MaxSlot == 2
\* at most MaxBreaks entries in settings.breaks
MaxBreaks == 1
\* staffForLastPeriod is MaxStaff
MaxStaff == 1

\* expectedOrders is '' or MaxOrders; the actual counts are 0, half of it, or all of it
MaxOrders == 12
\* avgSpeed is '' or MaxSpeed
MaxSpeed == 9

(***************************************************************************)
(* JavaScript numbers.                                                     *)
(***************************************************************************)
Abs(x) == IF x < 0 THEN -x ELSE x

Sgn(x) == IF x < 0 THEN -1 ELSE IF x > 0 THEN 1 ELSE 0

RECURSIVE GCD(_, _)
GCD(a, b) == IF b = 0 THEN a ELSE GCD(b, a % b)

NaN == [k |-> "nan", n |-> 0, d |-> 0]

Infinity == [k |-> "inf", n |-> 1, d |-> 0]

NegInfinity == [k |-> "inf", n |-> -1, d |-> 0]

\* the finite number n/d (d # 0), in lowest terms with a positive denominator
Fin(n, d) ==
    LET g == GCD(Abs(n), Abs(d))
    IN  [k |-> "fin", n |-> (Sgn(d) * n) \div g, d |-> Abs(d) \div g]

Num(i) == [k |-> "fin", n |-> i, d |-> 1]

IsFinite(a) == a.k = "fin"

IsZero(a) == a.k = "fin" /\ a.n = 0

RNeg(a) == [a EXCEPT !.n = -a.n]

RAdd(a, b) ==
    IF a.k = "nan" \/ b.k = "nan" THEN NaN
    ELSE IF a.k = "inf" /\ b.k = "inf" THEN (IF a.n = b.n THEN a ELSE NaN)
    ELSE IF a.k = "inf" THEN a
    ELSE IF b.k = "inf" THEN b
    ELSE Fin(a.n * b.d + b.n * a.d, a.d * b.d)

RSub(a, b) == RAdd(a, RNeg(b))

RMul(a, b) ==
    IF a.k = "nan" \/ b.k = "nan" THEN NaN
    ELSE IF a.k = "inf" \/ b.k = "inf"
         THEN (IF a.n = 0 \/ b.n = 0 THEN NaN
               ELSE IF Sgn(a.n) * Sgn(b.n) > 0 THEN Infinity ELSE NegInfinity)
    ELSE Fin(a.n * b.n, a.d * b.d)

\* a zero divisor is +0 wherever the engine divides (a difference or a product of non-negatives)
RDiv(a, b) ==
    IF a.k = "nan" \/ b.k = "nan" THEN NaN
    ELSE IF a.k = "inf"
         THEN (IF b.k = "inf" THEN NaN
               ELSE IF a.n * (IF b.n < 0 THEN -1 ELSE 1) > 0 THEN Infinity ELSE NegInfinity)
    ELSE IF b.k = "inf" THEN Num(0)
    ELSE IF b.n = 0
         THEN (IF a.n = 0 THEN NaN ELSE IF a.n > 0 THEN Infinity ELSE NegInfinity)
    ELSE Fin(a.n * b.d, a.d * b.n)

\* a < b; every comparison with NaN is false
RLt(a, b) ==
    IF a.k = "nan" \/ b.k = "nan" THEN FALSE
    ELSE IF a.k = "inf" THEN a.n < 0 /\ ~(b.k = "inf" /\ b.n < 0)
    ELSE IF b.k = "inf" THEN b.n > 0
    ELSE a.n * b.d < b.n * a.d

REq(a, b) == a.k # "nan" /\ b.k # "nan" /\ a = b

RGt(a, b) == RLt(b, a)

RLe(a, b) == RLt(a, b) \/ REq(a, b)

RGe(a, b) == RLe(b, a)

\* Math.max
RMax(a, b) ==
    IF a.k = "nan" \/ b.k = "nan" THEN NaN
    ELSE IF RLt(a, b) THEN b ELSE a

\* Math.abs
RAbs(a) == IF a.k = "nan" THEN NaN ELSE [a EXCEPT !.n = Abs(a.n)]

\* x.toFixed(2) of a non-negative x, read back as a number: the nearest
\* multiple of 1/100, the larger one on a tie; "Infinity" and "NaN" print as such
ToFixed2(a) ==
    IF a.k # "fin" THEN a
    ELSE Fin((200 * a.n + a.d) \div (2 * a.d), 100)

(***************************************************************************)
(* Time strings.  A string is [hh, mm, mod]: "hh:mm" when mod = "" and     *)
(* "hh:mm mod" otherwise; NoTime is the empty (or missing) string.         *)
(***************************************************************************)
NoTime == [hh |-> 0, mm |-> 0, mod |-> "unset"]

Time24(h, m) == [hh |-> h, mm |-> m, mod |-> ""]

\* !timeStr
Falsy(timeStr) == timeStr.mod = "unset"

\* the modifier compared as it is written, without toUpperCase()
ToUpperCaseNot(modifier) == modifier

\* modifier.toUpperCase()
ToUpperCase(modifier) ==
    IF modifier \in {"am", "AM", "Am", "aM"} THEN "AM"
    ELSE IF modifier \in {"pm", "PM", "Pm", "pM"} THEN "PM"
    ELSE modifier

parseTime(timeStr) ==
    IF Falsy(timeStr) THEN [hours |-> 0, minutes |-> 0]
    ELSE IF timeStr.mod = "" THEN [hours |-> timeStr.hh, minutes |-> timeStr.mm]
    ELSE LET h1 == IF ToUpperCase(timeStr.mod) = "PM" /\ timeStr.hh < 12
                   THEN timeStr.hh + 12 ELSE timeStr.hh
             h2 == IF ToUpperCase(timeStr.mod) = "AM" /\ h1 = 12 THEN 0 ELSE h1
         IN  [hours |-> h2, minutes |-> timeStr.mm]

\* new Date(y, m, d, hours, minutes) of the current day, in minutes since its midnight
DateOf(t) == t.hours * 60 + t.minutes

\* (dateA - dateB) / (1000 * 60 * 60)
HoursBetween(a, b) == Fin(a - b, 60)

(***************************************************************************)
(* Settings record: [shiftStart, shiftEnd, breaks, expectedOrders,         *)
(* avgSpeed, staffForLastPeriod].  The numeric fields hold what the        *)
(* settings form holds: the entered number, or EmptyField for ''.          *)
(* settings.breaks is [form, items]: an array of {start, end} objects, or  *)
(* a comma-separated string of "start-end" intervals, items being its      *)
(* intervals with NoTime for an endpoint that is not written.              *)
(***************************************************************************)
EmptyField == -1

\* Number(x) of a form field; Number('') is 0, so Number(x) || 0 is the same number
NumberOf(field) == IF field = EmptyField THEN 0 ELSE field

\* Array.isArray(settings.breaks)
IsArray(breaks) == breaks.form = "array"

\* typeof settings.breaks === 'string' && settings.breaks.trim() !== ''
IsNonEmptyString(breaks) == breaks.form = "string" /\ Len(breaks.items) > 0

\* breakEnd - breakStart of one entry, in hours
BreakDuration(brk) ==
    HoursBetween(DateOf(parseTime(brk.end)), DateOf(parseTime(brk.start)))

\* the forEach over an array of breaks accumulating the total break hours
RECURSIVE SumArrayBreaks(_)
SumArrayBreaks(items) ==
    IF items = << >> THEN Num(0)
    ELSE LET brk == Head(items)
         IN  RAdd(IF ~Falsy(brk.start) /\ ~Falsy(brk.end) THEN BreakDuration(brk) ELSE Num(0),
                  SumArrayBreaks(Tail(items)))

\* the forEach over the intervals of a string of breaks
RECURSIVE SumStringBreaks(_)
SumStringBreaks(items) ==
    IF items = << >> THEN Num(0)
    ELSE RAdd(BreakDuration(Head(items)), SumStringBreaks(Tail(items)))

\* totalBreakHours of calculateDeviations
TotalBreakHours(breaks) ==
    IF IsArray(breaks) THEN SumArrayBreaks(breaks.items)
    ELSE IF IsNonEmptyString(breaks) THEN SumStringBreaks(breaks.items)
    ELSE Num(0)

\* BreakPassedAt counting finished breaks only: nothing for a break in progress
BreakPassedAtFinishedOnly(brk, now) ==
    LET breakStart == DateOf(parseTime(brk.start))
        breakEnd == DateOf(parseTime(brk.end))
    IN  IF now >= breakEnd THEN HoursBetween(breakEnd, breakStart) ELSE Num(0)

\* the part of one break that has passed at the instant now
BreakPassedAt(brk, now) ==
    LET breakStart == DateOf(parseTime(brk.start))
        breakEnd == DateOf(parseTime(brk.end))
    IN  IF now >= breakEnd THEN HoursBetween(breakEnd, breakStart)
        ELSE IF now > breakStart /\ now < breakEnd THEN HoursBetween(now, breakStart)
        ELSE Num(0)

RECURSIVE SumBreaksPassed(_, _)
SumBreaksPassed(items, now) ==
    IF items = << >> THEN Num(0)
    ELSE LET brk == Head(items)
         IN  RAdd(IF ~Falsy(brk.start) /\ ~Falsy(brk.end) THEN BreakPassedAt(brk, now) ELSE Num(0),
                  SumBreaksPassed(Tail(items), now))

\* breakTimePassed of calculateDeviations
BreakTimePassed(breaks, now) ==
    IF IsArray(breaks) THEN SumBreaksPassed(breaks.items, now) ELSE Num(0)

\* RawHoursPassed without the clamp to the shift duration
RawHoursPassedUnclamped(shiftStartDate, totalShiftHours, now) ==
    IF now > shiftStartDate THEN HoursBetween(now, shiftStartDate) ELSE Num(0)

\* rawHoursPassed of calculateDeviations
RawHoursPassed(shiftStartDate, totalShiftHours, now) ==
    IF now > shiftStartDate
    THEN LET raw == HoursBetween(now, shiftStartDate)
         IN  IF RGt(raw, totalShiftHours) THEN totalShiftHours ELSE raw
    ELSE Num(0)

\* RequiredSpeed without the floor: the candidate speed alone
RequiredSpeedNoFloor(R, totalWorkTime, staffLastHour, avgSpeed) ==
    IF RGt(totalWorkTime, Num(1))
    THEN RDiv(RSub(R, Num(staffLastHour * avgSpeed)), RSub(totalWorkTime, Num(1)))
    ELSE RDiv(R, totalWorkTime)

\* RequiredSpeed with the last-hour capacity of one employee, whatever the staff
RequiredSpeedOneEmployee(R, totalWorkTime, staffLastHour, avgSpeed) ==
    LET baseSpeed == RDiv(R, totalWorkTime)
        candidateSpeed == IF RGt(totalWorkTime, Num(1))
                          THEN RDiv(RSub(R, Num(avgSpeed)), RSub(totalWorkTime, Num(1)))
                          ELSE baseSpeed
    IN  RMax(baseSpeed, candidateSpeed)

\* RequiredSpeed taking the smaller of the base speed and the candidate speed
RequiredSpeedMin(R, totalWorkTime, staffLastHour, avgSpeed) ==
    LET baseSpeed == RDiv(R, totalWorkTime)
        candidateSpeed == IF RGt(totalWorkTime, Num(1))
                          THEN RDiv(RSub(R, Num(staffLastHour * avgSpeed)),
                                    RSub(totalWorkTime, Num(1)))
                          ELSE baseSpeed
    IN  IF RLt(baseSpeed, candidateSpeed) THEN baseSpeed ELSE candidateSpeed

\* RequiredSpeed without the last-hour reserve: the base speed alone
RequiredSpeedBaseOnly(R, totalWorkTime, staffLastHour, avgSpeed) == RDiv(R, totalWorkTime)

\* newRequiredSpeed = max(baseSpeed, candidateSpeed), the same for picking and packing
RequiredSpeed(R, totalWorkTime, staffLastHour, avgSpeed) ==
    LET baseSpeed == RDiv(R, totalWorkTime)
        targetProcessed == RSub(R, Num(staffLastHour * avgSpeed))
        candidateSpeed == IF RGt(totalWorkTime, Num(1))
                          THEN RDiv(targetProcessed, RSub(totalWorkTime, Num(1)))
                          ELSE baseSpeed
    IN  RMax(baseSpeed, candidateSpeed)

\* if (expectedProcessed > R) expectedProcessed = R
CapAt(expected, R) == IF RGt(expected, R) THEN R ELSE expected

\* Deviation without the forcing to 0 once the target is reached
DeviationNotForced(actual, R, expectedProcessed) == RSub(Num(actual), expectedProcessed)

\* actual >= R ? 0 : actual - expectedProcessed
Deviation(actual, R, expectedProcessed) ==
    IF RGe(Num(actual), R) THEN Num(0) ELSE RSub(Num(actual), expectedProcessed)

ZeroDeviations ==
    [pickingDeviation |-> Num(0), packingDeviation |-> Num(0), hoursPassed |-> Num(0),
     expectedProcessedPicking |-> Num(0), expectedProcessedPacking |-> Num(0),
     requiredSpeedPicking |-> Num(0), requiredSpeedPacking |-> Num(0),
     totalWorkTime |-> Num(0)]

\* ShiftUnset testing the shift start only
ShiftUnsetStartOnly(settings) == Falsy(settings.shiftStart)

\* !settings.shiftStart || !settings.shiftEnd
ShiftUnset(settings) == Falsy(settings.shiftStart) \/ Falsy(settings.shiftEnd)

\* totalShiftHours = (shiftEndDate - shiftStartDate) / (1000 * 60 * 60)
TotalShiftHours(settings) ==
    HoursBetween(DateOf(parseTime(settings.shiftEnd)), DateOf(parseTime(settings.shiftStart)))

\* totalWorkTime of calculateDeviations
TotalWorkTime(settings) ==
    RSub(TotalShiftHours(settings), TotalBreakHours(settings.breaks))

\* calculateDeviations at the instant now (new Date())
calculateDeviations(settings, pickedActual, packedActual, now) ==
    IF ShiftUnset(settings) THEN ZeroDeviations
    ELSE
    LET shiftStartDate == DateOf(parseTime(settings.shiftStart))
        totalShiftHours == TotalShiftHours(settings)
        totalWorkTime == TotalWorkTime(settings)
        rawHoursPassed == RawHoursPassed(shiftStartDate, totalShiftHours, now)
        effectiveHoursPassed == RSub(rawHoursPassed, BreakTimePassed(settings.breaks, now))
        R == Num(NumberOf(settings.expectedOrders))
        avgSpeed == NumberOf(settings.avgSpeed)
        staffLastHour == NumberOf(settings.staffForLastPeriod)
        newRequiredSpeedPicking == RequiredSpeed(R, totalWorkTime, staffLastHour, avgSpeed)
        newRequiredSpeedPacking == RequiredSpeed(R, totalWorkTime, staffLastHour, avgSpeed)
        expectedProcessedPicking == CapAt(RMul(newRequiredSpeedPicking, effectiveHoursPassed), R)
        expectedProcessedPacking == CapAt(RMul(newRequiredSpeedPacking, effectiveHoursPassed), R)
    IN  [pickingDeviation |-> Deviation(pickedActual, R, expectedProcessedPicking),
         packingDeviation |-> Deviation(packedActual, R, expectedProcessedPacking),
         hoursPassed |-> effectiveHoursPassed,
         expectedProcessedPicking |-> expectedProcessedPicking,
         expectedProcessedPacking |-> expectedProcessedPacking,
         requiredSpeedPicking |-> newRequiredSpeedPicking,
         requiredSpeedPacking |-> newRequiredSpeedPacking,
         totalWorkTime |-> totalWorkTime]

(***************************************************************************)
(* The unified variant of the engine: one required speed for both          *)
(* processes, from settings with avgPackingSpeed and avgPickingSpeed.      *)
(***************************************************************************)
\* the settings of the unified variant with both speeds equal to avgSpeed
UnifiedSettings(settings) ==
    [shiftStart |-> settings.shiftStart, shiftEnd |-> settings.shiftEnd,
     breaks |-> settings.breaks, expectedOrders |-> settings.expectedOrders,
     avgPackingSpeed |-> settings.avgSpeed, avgPickingSpeed |-> settings.avgSpeed,
     staffForLastPeriod |-> settings.staffForLastPeriod]

\* calculateDeviationsUnified with the last-hour capacity from avgPickingSpeed
\* of one employee less than the staff
calculateDeviationsUnifiedShortStaffed(settings, pickedActual, packedActual, now) ==
    IF Falsy(settings.shiftStart) \/ Falsy(settings.shiftEnd)
    THEN [packingDeviation |-> Num(0), pickingDeviation |-> Num(0), hoursPassed |-> Num(0),
          expectedProcessed |-> Num(0), requiredSpeed |-> Num(0), totalWorkTime |-> Num(0)]
    ELSE
    LET shiftStartDate == DateOf(parseTime(settings.shiftStart))
        totalShiftHours ==
            HoursBetween(DateOf(parseTime(settings.shiftEnd)), shiftStartDate)
        totalWorkTime == RSub(totalShiftHours, TotalBreakHours(settings.breaks))
        rawHoursPassed == RawHoursPassed(shiftStartDate, totalShiftHours, now)
        effectiveHoursPassed == RSub(rawHoursPassed, BreakTimePassed(settings.breaks, now))
        R == Num(NumberOf(settings.expectedOrders))
        requiredSpeed == RequiredSpeed(R, totalWorkTime,
                                       NumberOf(settings.staffForLastPeriod) - 1,
                                       NumberOf(settings.avgPackingSpeed))
        newExpectedProcessed == RMul(requiredSpeed, effectiveHoursPassed)
    IN  [packingDeviation |-> RSub(Num(packedActual), newExpectedProcessed),
         pickingDeviation |-> RSub(Num(pickedActual), newExpectedProcessed),
         hoursPassed |-> effectiveHoursPassed,
         expectedProcessed |-> newExpectedProcessed,
         requiredSpeed |-> requiredSpeed,
         totalWorkTime |-> totalWorkTime]

\* calculateDeviations of the unified variant at the instant now
calculateDeviationsUnified(settings, pickedActual, packedActual, now) ==
    IF Falsy(settings.shiftStart) \/ Falsy(settings.shiftEnd)
    THEN [packingDeviation |-> Num(0), pickingDeviation |-> Num(0), hoursPassed |-> Num(0),
          expectedProcessed |-> Num(0), requiredSpeed |-> Num(0), totalWorkTime |-> Num(0)]
    ELSE
    LET shiftStartDate == DateOf(parseTime(settings.shiftStart))
        totalShiftHours ==
            HoursBetween(DateOf(parseTime(settings.shiftEnd)), shiftStartDate)
        totalWorkTime == RSub(totalShiftHours, TotalBreakHours(settings.breaks))
        rawHoursPassed == RawHoursPassed(shiftStartDate, totalShiftHours, now)
        effectiveHoursPassed == RSub(rawHoursPassed, BreakTimePassed(settings.breaks, now))
        R == Num(NumberOf(settings.expectedOrders))
        requiredSpeed == RequiredSpeed(R, totalWorkTime,
                                       NumberOf(settings.staffForLastPeriod),
                                       NumberOf(settings.avgPackingSpeed))
        newExpectedProcessed == RMul(requiredSpeed, effectiveHoursPassed)
    IN  [packingDeviation |-> RSub(Num(packedActual), newExpectedProcessed),
         pickingDeviation |-> RSub(Num(pickedActual), newExpectedProcessed),
         hoursPassed |-> effectiveHoursPassed,
         expectedProcessed |-> newExpectedProcessed,
         requiredSpeed |-> requiredSpeed,
         totalWorkTime |-> totalWorkTime]

\* breakBefore of calculateExpectedAtTime for one break
BreakBeforeAt(brk, cpDate) ==
    LET breakStart == DateOf(parseTime(brk.start))
        breakEnd == DateOf(parseTime(brk.end))
    IN  IF breakEnd <= cpDate THEN HoursBetween(breakEnd, breakStart)
        ELSE IF breakStart < cpDate /\ breakEnd > cpDate THEN HoursBetween(cpDate, breakStart)
        ELSE Num(0)

RECURSIVE SumBreaksBefore(_, _)
SumBreaksBefore(items, cpDate) ==
    IF items = << >> THEN Num(0)
    ELSE LET brk == Head(items)
         IN  RAdd(IF ~Falsy(brk.start) /\ ~Falsy(brk.end) THEN BreakBeforeAt(brk, cpDate) ELSE Num(0),
                  SumBreaksBefore(Tail(items), cpDate))

\* breakBefore of calculateExpectedAtTime
BreakBefore(breaks, cpDate) ==
    IF IsArray(breaks) THEN SumBreaksBefore(breaks.items, cpDate) ELSE Num(0)

\* totalBreakHours of calculateExpectedAtTime: arrays only
TotalBreakHoursAtTime(breaks) ==
    IF IsArray(breaks) THEN SumArrayBreaks(breaks.items) ELSE Num(0)

\* rawHours of calculateExpectedAtTime
RawHoursAt(settings, controlTime) ==
    LET shiftStartDate == DateOf(parseTime(settings.shiftStart))
        cpDate == DateOf(parseTime(controlTime))
        raw == HoursBetween(cpDate, shiftStartDate)
    IN  IF RLt(raw, Num(0)) THEN Num(0) ELSE raw

\* effectiveHours of calculateExpectedAtTime
EffectiveHoursAt(settings, controlTime) ==
    LET cpDate == DateOf(parseTime(controlTime))
        rawHours == RawHoursAt(settings, controlTime)
    IN  RMax(RSub(rawHours, BreakBefore(settings.breaks, cpDate)), Num(0))

\* totalWorkTime of calculateExpectedAtTime
TotalWorkTimeAtTime(settings) ==
    RSub(TotalShiftHours(settings), TotalBreakHoursAtTime(settings.breaks))

\* newSpeedPicking and newSpeedPacking of calculateExpectedAtTime
SpeedAtTime(settings) ==
    RequiredSpeed(Num(NumberOf(settings.expectedOrders)), TotalWorkTimeAtTime(settings),
                  NumberOf(settings.staffForLastPeriod), NumberOf(settings.avgSpeed))

calculateExpectedAtTime(settings, controlTime) ==
    IF Falsy(controlTime) \/ Falsy(settings.shiftStart) \/ Falsy(settings.shiftEnd)
    THEN [expectedPicking |-> Num(0), expectedPacking |-> Num(0)]
    ELSE
    LET effectiveHours == EffectiveHoursAt(settings, controlTime)
        R == Num(NumberOf(settings.expectedOrders))
        newSpeedPicking == SpeedAtTime(settings)
        newSpeedPacking == SpeedAtTime(settings)
    IN  [expectedPicking |-> CapAt(RMul(newSpeedPicking, effectiveHours), R),
         expectedPacking |-> CapAt(RMul(newSpeedPacking, effectiveHours), R)]

\* one recommendation: the text chosen and the employee figure printed in it
Recommendation(deviation, individualSpeed) ==
    IF RLt(deviation, Num(0))
    THEN [text |-> "add",
          employees |-> ToFixed2(RDiv(RAbs(deviation), Num(individualSpeed * 2)))]
    ELSE IF RGt(deviation, Num(0))
    THEN [text |-> "remove",
          employees |-> ToFixed2(RDiv(deviation, Num(individualSpeed * 2)))]
    ELSE [text |-> "exact"]

\* calculateRecommendations reading the packing deviation for both processes
calculateRecommendationsPackingOnly(deviations, settings) ==
    LET individualSpeed == NumberOf(settings.avgSpeed)
    IN  [packing |-> Recommendation(deviations.packingDeviation, individualSpeed),
         picking |-> Recommendation(deviations.packingDeviation, individualSpeed)]

\* calculateRecommendations without last-hour indicators (the default null)
calculateRecommendations(deviations, settings) ==
    LET individualSpeed == NumberOf(settings.avgSpeed)
    IN  [packing |-> Recommendation(deviations.packingDeviation, individualSpeed),
         picking |-> Recommendation(deviations.pickingDeviation, individualSpeed)]

\* remainingOrdersLastHour of the unified variant of calculateLastHourIndicators:
\* what is left for the last hour after T - 1 hours at the required speed
remainingOrdersLastHour(R, totalWorkTime, newRequiredSpeed) ==
    LET processedBeforeLastHour == RMul(newRequiredSpeed, RSub(totalWorkTime, Num(1)))
    IN  RSub(R, processedBeforeLastHour)

calculateLastHourIndicators(settings) ==
    IF Falsy(settings.shiftStart) \/ Falsy(settings.shiftEnd)
       \/ settings.expectedOrders = EmptyField
    THEN [expectedOrdersLastHour |-> Num(0), staffNeededPacking |-> Num(0),
          staffNeededPicking |-> Num(0)]
    ELSE
    LET R == Num(NumberOf(settings.expectedOrders))
        expectedOrdersLastHour == RDiv(R, Num(2))
        avgSpeed == NumberOf(settings.avgSpeed)
    IN  [expectedOrdersLastHour |-> expectedOrdersLastHour,
         staffNeededPacking |-> IF avgSpeed > 0 THEN RDiv(expectedOrdersLastHour, Num(avgSpeed))
                                ELSE Num(0),
         staffNeededPicking |-> IF avgSpeed > 0 THEN RDiv(expectedOrdersLastHour, Num(avgSpeed))
                                ELSE Num(0)]

(***************************************************************************)
(* The engine applied to a settings record at a wall-clock instant.        *)
(* settings and now are the inputs; out is the last call and its result.   *)
(* view, storage, timers and pending are the state of the update view,     *)
(* which stays unmounted while the engine is applied on its own.           *)
(***************************************************************************)
VARIABLES settings, now, out, view, storage, timers, pending

vars == <<settings, now, out, view, storage, timers, pending>>

viewVars == <<view, storage, timers, pending>>

\* the time string of slot i of the grid
SlotTime(i) == Time24(8 + (i * 45) \div 60, (i * 45) % 60)

TimeStrings == {SlotTime(i) : i \in 0..MaxSlot} \cup {NoTime}

\* a break entry as the settings form holds it: both times, end after start, or a time not filled in
BreakEntries ==
    {b \in [start : TimeStrings, end : TimeStrings] :
        Falsy(b.start) \/ Falsy(b.end)
        \/ DateOf(parseTime(b.start)) < DateOf(parseTime(b.end))}

\* the position of a time string in the listing order of break entries
TimeRank(t) == IF Falsy(t) THEN 0 ELSE 1 + DateOf(parseTime(t))

EntryRank(b) == TimeRank(b.start) * 10000 + TimeRank(b.end)

\* lists of distinct entries in listing order (the sums over a list do not depend on its order)
BreakLists ==
    UNION {{l \in [1..n -> BreakEntries] :
               \A i \in 1..(n - 1) : EntryRank(l[i]) < EntryRank(l[i + 1])} : n \in 0..MaxBreaks}

BreakSettings == [form : {"array", "string"}, items : BreakLists]

SettingsRecords ==
    [shiftStart : TimeStrings, shiftEnd : TimeStrings, breaks : BreakSettings,
     expectedOrders : {EmptyField, MaxOrders}, avgSpeed : {EmptyField, MaxSpeed},
     staffForLastPeriod : {MaxStaff}]

\* wall-clock instants: the grid and one slot after it
Instants == {8 * 60 + i * 45 : i \in 0..(MaxSlot + 1)}

Actuals == {0, MaxOrders \div 2, MaxOrders}

\* the actual counts <<picked, packed>>: no more orders packed than picked
ActualCounts == {c \in Actuals \X Actuals : c[2] <= c[1]}

\* the "HH:MM" string of the time of day of an instant
TimeOfDay(instant) == Time24(instant \div 60, instant % 60)

NoCall == [fn |-> "none"]

\* useState(null) of settings; localStorage.getItem of a key that was never set
Null == [null |-> TRUE]

\* useState({}) of deviations and of recommendations
EmptyObject == [empty |-> TRUE]

\* the update view before it is mounted: the initial values of its state and of its
\* ref; timer holds the interval timer of the timer effect while that effect is live;
\* thrown says that its last render threw, which unmounted it
NotMounted ==
    [mounted |-> FALSE, pickedActual |-> 0, packedActual |-> 0, settings |-> Null,
     deviations |-> EmptyObject, recommendations |-> EmptyObject, cpData |-> << >>,
     initialRender |-> TRUE, timer |-> {}, thrown |-> FALSE]

Init ==
    /\ settings \in SettingsRecords
    /\ now \in Instants
    /\ out = NoCall
    /\ view = NotMounted
    /\ storage = Null
    /\ timers = {}
    /\ pending = {}

\* calculateDeviations, then calculateRecommendations on its result
Recalc(pickedActual, packedActual) ==
    /\ out = NoCall
    /\ LET calcDev == calculateDeviations(settings, pickedActual, packedActual, now)
       IN  out' = [fn |-> "recalc", pickedActual |-> pickedActual,
                   packedActual |-> packedActual, deviations |-> calcDev,
                   recommendations |-> calculateRecommendations(calcDev, settings)]
    /\ UNCHANGED <<settings, now, viewVars>>

ExpectedAtTime(controlTime) ==
    /\ out = NoCall
    /\ out' = [fn |-> "calculateExpectedAtTime", controlTime |-> controlTime,
               expected |-> calculateExpectedAtTime(settings, controlTime)]
    /\ UNCHANGED <<settings, now, viewVars>>

LastHourIndicators ==
    /\ out = NoCall
    /\ out' = [fn |-> "calculateLastHourIndicators",
               indicators |-> calculateLastHourIndicators(settings)]
    /\ UNCHANGED <<settings, now, viewVars>>

Next ==
    \/ \E counts \in ActualCounts : Recalc(counts[1], counts[2])
    \/ \E controlTime \in {NoTime, TimeOfDay(now)} : ExpectedAtTime(controlTime)
    \/ LastHourIndicators

Spec == Init /\ [][Next]_vars

(***************************************************************************)
(* The engine over one working day: the shift 08:00-16:00 with 800         *)
(* expected orders, average speed 25 and 2 or 8 employees for the last     *)
(* period,                                                                 *)
(* with none, one or both of the breaks 09:00-09:15 and 12:00-12:30, at    *)
(* wall-clock instants ten minutes apart from 07:30 on.                    *)
(***************************************************************************)
\* the wall-clock instants of the day are 07:30 + 10 i minutes, i in 0..MaxTick
MaxTick == 54

DayBreaks ==
    <<[start |-> Time24(9, 0), end |-> Time24(9, 15)],
      [start |-> Time24(12, 0), end |-> Time24(12, 30)]>>

\* the break lists of the day: no break, either break, both breaks
DayBreakLists == {SubSeq(DayBreaks, i, j) : i \in 1..2, j \in 0..2}

DaySettings ==
    [shiftStart : {Time24(8, 0)}, shiftEnd : {Time24(16, 0)},
     breaks : [form : {"array"}, items : DayBreakLists],
     expectedOrders : {800}, avgSpeed : {25}, staffForLastPeriod : {2, 8}]

DayInstants == {7 * 60 + 30 + i * 10 : i \in 0..MaxTick}

\* the actual counts <<picked, packed>> of the day
DayCounts == {c \in {0, 400, 800} \X {0, 400, 800} : c[2] <= c[1]}

DayInit ==
    /\ settings \in DaySettings
    /\ now \in DayInstants
    /\ out = NoCall
    /\ view = NotMounted
    /\ storage = Null
    /\ timers = {}
    /\ pending = {}

DayNext ==
    \/ \E counts \in DayCounts : Recalc(counts[1], counts[2])
    \/ \E controlTime \in {NoTime, TimeOfDay(now)} : ExpectedAtTime(controlTime)
    \/ LastHourIndicators

DaySpec == DayInit /\ [][DayNext]_vars

(***************************************************************************)
(* parseTime applied to the time strings of a clock: "h:mm" with h in      *)
(* 0..23, and "h:mm AM" and "h:mm PM" with h in 1..12, the meridiem in     *)
(* every letter case; and to the empty string.                             *)
(***************************************************************************)
ClockMinutes == {0, 30, 59}

Meridiems == {"AM", "am", "Am", "aM", "PM", "pm", "Pm", "pM"}

ClockStrings ==
    {Time24(h, m) : h \in 0..23, m \in ClockMinutes}
    \cup [hh : 1..12, mm : ClockMinutes, mod : Meridiems]
    \cup {NoTime}

ParseTime(timeStr) ==
    /\ out = NoCall
    /\ out' = [fn |-> "parseTime", timeStr |-> timeStr, parsed |-> parseTime(timeStr)]
    /\ UNCHANGED <<settings, now, viewVars>>

ParseInit ==
    /\ settings = Null
    /\ now \in DayInstants
    /\ out = NoCall
    /\ view = NotMounted
    /\ storage = Null
    /\ timers = {}
    /\ pending = {}

ParseNext == \E timeStr \in ClockStrings : ParseTime(timeStr)

ParseSpec == ParseInit /\ [][ParseNext]_vars

(***************************************************************************)
(* The update view (components/UpdateData/UpdateData.js).                  *)
(* settings is the 'settings' item of localStorage, storage its            *)
(* 'updateData' item; view is the state of the component as last rendered; *)
(* timers is the set of running interval timers, each the recalc callback  *)
(* it invokes; pending is the set of effects of the last render that have  *)
(* not run yet.  The page was rendered with ReactDOM.render: the effects   *)
(* of a render run in a later task, before the next render.                *)
(***************************************************************************)
\* settings.controlPoints has at most MaxPoints entries
MaxPoints == 1
\* the view is followed from 12:00 for MaxMinutes minutes
MaxMinutes == 1

\* the time of a control point as the settings view saved it: 12:00, or '' while not filled in
ControlPointTimes == {Time24(12, 0), NoTime}

ControlPointLists ==
    UNION {[1..n -> [time : ControlPointTimes]] : n \in 0..MaxPoints}

\* the 'settings' item: never saved, or saved by the settings view
ViewSettings ==
    {Null} \cup
    [shiftStart : {Time24(8, 0)}, shiftEnd : {Time24(16, 0)},
     breaks : [form : {"array"}, items : {<< >>, DayBreaks}],
     controlPoints : ControlPointLists,
     expectedOrders : {800}, avgSpeed : {25}, staffForLastPeriod : {2}]

\* the numbers typed into the count inputs
TypedCounts == {0, 400, 800}

\* the values of a control point's time input: a time, or '' when it is cleared
TypedTimes == {Time24(14, 0), NoTime}

\* JSON.parse(JSON.stringify(x)) of a number: null for NaN and the infinities
JsonNumber(x) == IF IsFinite(x) THEN x ELSE Null

\* of a planned value: the number 0, or the object calculateExpectedAtTime returns
JsonPlanned(planned) ==
    IF "k" \in DOMAIN planned THEN JsonNumber(planned)
    ELSE [expectedPicking |-> JsonNumber(planned.expectedPicking),
          expectedPacking |-> JsonNumber(planned.expectedPacking)]

\* of one cpData record
JsonCheckpoint(cp) ==
    [cp EXCEPT !.plannedPacked = JsonPlanned(cp.plannedPacked),
               !.plannedPicked = JsonPlanned(cp.plannedPicked)]

\* JSON.parse(JSON.stringify(dataToSave)): the 'updateData' item as it is read back
JsonRoundTrip(dataToSave) ==
    [dataToSave EXCEPT !.cpData = [i \in 1..Len(dataToSave.cpData) |->
                                      JsonCheckpoint(dataToSave.cpData[i])]]

\* const dataToSave = { pickedActual, packedActual, cpData }
DataToSave(v) ==
    [pickedActual |-> v.pickedActual, packedActual |-> v.packedActual, cpData |-> v.cpData]

\* the recalc callback of a render: the settings and actual counts it closes over
RecalcOf(v) ==
    [settings |-> v.settings, pickedActual |-> v.pickedActual, packedActual |-> v.packedActual]

\* a call of the recalc callback c at an instant: the state updates it queues on the view v
recalc(v, c, instant) ==
    IF c.settings # Null
    THEN LET calcDev == calculateDeviations(c.settings, c.pickedActual, c.packedActual, instant)
         IN  [v EXCEPT !.deviations = calcDev,
                       !.recommendations = calculateRecommendations(calcDev, c.settings)]
    ELSE v

\* the seed of cpData: one record per control point of the settings
initialCPData(viewSettings) ==
    [i \in 1..Len(viewSettings.controlPoints) |->
        LET cp == viewSettings.controlPoints[i]
        IN  [time |-> cp.time,
             plannedPacked |-> calculateExpectedAtTime(viewSettings, cp.time),
             actualPacked |-> 0,
             plannedPicked |-> calculateExpectedAtTime(viewSettings, cp.time),
             actualPicked |-> 0]]

\* setInterval(callback, 60000) and clearInterval(timer) on the set of running timers
SetInterval(running, callback) == running \cup {callback}

\* clearInterval doing nothing: the timer keeps running
ClearIntervalNothing(running, timer) == running

ClearInterval(running, timer) == running \ timer

(***************************************************************************)
(* The effects of the view, in source order.  v is the render the effect   *)
(* closes over; e is [view, storage, timers, cpSet]: the state updates     *)
(* queued so far, the updateData item, the running timers, and whether     *)
(* setCpData was called (with a new array, which always changes cpData).   *)
(***************************************************************************)
\* load updateData (every item this view wrote has a cpData array)
LoadUpdateData(e) ==
    IF e.storage # Null
    THEN [e EXCEPT !.view.pickedActual = e.storage.pickedActual,
                   !.view.packedActual = e.storage.packedActual,
                   !.view.cpData = e.storage.cpData,
                   !.cpSet = TRUE]
    ELSE e

\* Autosave that writes on the first render too
AutosaveOnFirstRender(v, e) ==
    [e EXCEPT !.view.initialRender = FALSE, !.storage = JsonRoundTrip(DataToSave(v))]

\* autosave of updateData, skipped on the first render
Autosave(v, e) ==
    IF e.view.initialRender THEN [e EXCEPT !.view.initialRender = FALSE]
    ELSE [e EXCEPT !.storage = JsonRoundTrip(DataToSave(v))]

\* load settings
LoadSettings(storedSettings, e) ==
    IF storedSettings # Null THEN [e EXCEPT !.view.settings = storedSettings] ELSE e

\* SeedCpData without the look at the stored item
SeedCpDataAlways(v, e) ==
    IF v.settings # Null /\ Len(v.settings.controlPoints) > 0
    THEN [e EXCEPT !.view.cpData = initialCPData(v.settings), !.cpSet = TRUE]
    ELSE e

\* initialise cpData when the stored item has none
SeedCpData(v, e) ==
    LET parsedData == e.storage
        noCpData == parsedData = Null \/ Len(parsedData.cpData) = 0
    IN  IF noCpData /\ v.settings # Null /\ Len(v.settings.controlPoints) > 0
        THEN [e EXCEPT !.view.cpData = initialCPData(v.settings), !.cpSet = TRUE]
        ELSE e

\* the timer effect: the cleanup of its previous run, then recalc() and setInterval(recalc, 60000)
TimerEffect(v, e, instant) ==
    LET cleaned == ClearInterval(e.timers, e.view.timer)
        called == recalc(e.view, RecalcOf(v), instant)
    IN  [e EXCEPT !.view = [called EXCEPT !.timer = {RecalcOf(v)}],
                  !.timers = SetInterval(cleaned, RecalcOf(v))]

\* ChangedEffects with cpData missing from the dependencies of the autosave
ChangedEffectsWithoutCpData(v, nv, cpSet) ==
    {effect \in {"autosave", "seed", "timer"} :
        \/ /\ effect = "autosave"
           /\ \/ nv.pickedActual # v.pickedActual
              \/ nv.packedActual # v.packedActual
        \/ effect = "seed" /\ nv.settings # v.settings
        \/ effect = "timer" /\ RecalcOf(nv) # RecalcOf(v)}

\* the effects whose dependencies differ between the render v and the next render nv
ChangedEffects(v, nv, cpSet) ==
    {effect \in {"autosave", "seed", "timer"} :
        \/ /\ effect = "autosave"
           /\ \/ nv.pickedActual # v.pickedActual
              \/ nv.packedActual # v.packedActual
              \/ cpSet
        \/ effect = "seed" /\ nv.settings # v.settings
        \/ effect = "timer" /\ RecalcOf(nv) # RecalcOf(v)}

AllEffects == {"load", "autosave", "loadSettings", "seed", "timer"}

(***************************************************************************)
(* The control point block of the render.                                  *)
(***************************************************************************)
\* typeof x === 'number': a number has the method toFixed, an object has not
IsNumber(x) == "k" \in DOMAIN x

\* the block is rendered for settings with control points
ControlPointsShown(v) == v.settings # Null /\ Len(v.settings.controlPoints) > 0

\* a record of cpData without a time renders nothing
Rendered(v, index) ==
    /\ ControlPointsShown(v)
    /\ index \in 1..Len(v.cpData)
    /\ ~Falsy(v.cpData[index].time)

\* const expectedAtCP = calculateExpectedAtTime(settings, cp.time)
expectedAtCP(v, index) == calculateExpectedAtTime(v.settings, v.cpData[index].time)

\* expectedAtCP.toFixed(0) is a TypeError unless expectedAtCP is a number
RenderThrows(v) ==
    \E index \in 1..Len(v.cpData) : Rendered(v, index) /\ ~IsNumber(expectedAtCP(v, index))

(***************************************************************************)
(* The handlers of the inputs and of the button of a control point record, *)
(* as functions of the cpData and settings of the render they belong to.   *)
(***************************************************************************)
\* newCPData[index] = { ...newCPData[index], [field]: Number(value) }
updateCPField(cpData, index, field, value) ==
    [cpData EXCEPT ![index][field] = value]

\* updateCPTime starting the record anew, without its actual counts
updateCPTimeResetting(cpData, viewSettings, index, value) ==
    LET planned == IF viewSettings # Null /\ ~Falsy(value)
                   THEN calculateExpectedAtTime(viewSettings, value) ELSE Num(0)
    IN  [cpData EXCEPT ![index] =
            [time |-> value, actualPacked |-> 0, actualPicked |-> 0,
             plannedPacked |-> planned, plannedPicked |-> planned]]

updateCPTime(cpData, viewSettings, index, value) ==
    LET planned == IF viewSettings # Null /\ ~Falsy(value)
                   THEN calculateExpectedAtTime(viewSettings, value) ELSE Num(0)
    IN  [cpData EXCEPT ![index] =
            [time |-> value,
             actualPacked |-> cpData[index].actualPacked,
             actualPicked |-> cpData[index].actualPicked,
             plannedPacked |-> planned,
             plannedPicked |-> planned]]

\* the delete button: cpData.filter((_, i) => i !== index)
DeleteControlPoint(cpData, index) ==
    [i \in 1..(Len(cpData) - 1) |-> IF i < index THEN cpData[i] ELSE cpData[i + 1]]

(***************************************************************************)
(* The steps of the view.                                                  *)
(***************************************************************************)
\* the first render: every effect is due
Mount ==
    /\ ~view.mounted
    /\ view' = [NotMounted EXCEPT !.mounted = TRUE]
    /\ pending' = AllEffects
    /\ UNCHANGED <<settings, now, out, storage, timers>>

\* saveSettings of the settings view, shown while the update view is not: the
\* 'settings' item is written, then navigate('/update') mounts the update view
saveSettings(saved) ==
    /\ ~view.mounted
    /\ settings' = saved
    /\ view' = [NotMounted EXCEPT !.mounted = TRUE]
    /\ pending' = AllEffects
    /\ UNCHANGED <<now, out, storage, timers>>

\* the due effects run in source order, then the view renders with the queued
\* updates; a render that throws unmounts the view (no error boundary catches
\* it): the cleanup of its timer effect runs and the effects of that render never do
RunEffects ==
    /\ view.mounted
    /\ pending # {}
    /\ LET e0 == [view |-> view, storage |-> storage, timers |-> timers, cpSet |-> FALSE]
           e1 == IF "load" \in pending THEN LoadUpdateData(e0) ELSE e0
           e2 == IF "autosave" \in pending THEN Autosave(view, e1) ELSE e1
           e3 == IF "loadSettings" \in pending THEN LoadSettings(settings, e2) ELSE e2
           e4 == IF "seed" \in pending THEN SeedCpData(view, e3) ELSE e3
           e5 == IF "timer" \in pending THEN TimerEffect(view, e4, now) ELSE e4
       IN  \E e \in {e5} :
               /\ storage' = e.storage
               /\ IF RenderThrows(e.view)
                  THEN /\ view' = [e.view EXCEPT !.mounted = FALSE, !.thrown = TRUE, !.timer = {}]
                       /\ timers' = ClearInterval(e.timers, e.view.timer)
                       /\ pending' = {}
                  ELSE /\ view' = e.view
                       /\ timers' = e.timers
                       /\ pending' = ChangedEffects(view, e.view, e.cpSet)
    /\ UNCHANGED <<settings, now, out>>

\* an event handler runs on a view whose effects have run
Idle == view.mounted /\ pending = {}

\* onChange of the picked input: setPickedActual(Number(e.target.value))
SetPickedActual(value) ==
    /\ Idle
    /\ view' = [view EXCEPT !.pickedActual = value]
    /\ pending' = ChangedEffects(view, view', FALSE)
    /\ UNCHANGED <<settings, now, out, storage, timers>>

\* onChange of the packed input: setPackedActual(Number(e.target.value))
SetPackedActual(value) ==
    /\ Idle
    /\ view' = [view EXCEPT !.packedActual = value]
    /\ pending' = ChangedEffects(view, view', FALSE)
    /\ UNCHANGED <<settings, now, out, storage, timers>>

handleSaveAll ==
    /\ Idle
    /\ storage' = JsonRoundTrip(DataToSave(view))
    /\ UNCHANGED <<settings, now, out, view, timers, pending>>

\* a running interval timer fires: its callback recalculates with the values it closes over
Tick(callback) ==
    /\ callback \in timers
    /\ view' = IF view.mounted THEN recalc(view, callback, now) ELSE view
    /\ UNCHANGED <<settings, now, out, storage, timers, pending>>

\* the view is torn down: the cleanup of the timer effect runs and the state is dropped
Unmount ==
    /\ Idle
    /\ timers' = ClearInterval(timers, view.timer)
    /\ view' = NotMounted
    /\ pending' = {}
    /\ UNCHANGED <<settings, now, out, storage>>

\* a minute of wall-clock time passes
MinutePasses ==
    /\ now < 12 * 60 + MaxMinutes
    /\ now' = now + 1
    /\ UNCHANGED <<settings, out, viewVars>>

ViewInit ==
    /\ settings \in ViewSettings
    /\ now = 12 * 60
    /\ out = NoCall
    /\ view = NotMounted
    /\ storage = Null
    /\ timers = {}
    /\ pending = {}

ViewNext ==
    \/ Mount
    \/ \E saved \in ViewSettings \ {Null} : saveSettings(saved)
    \/ RunEffects
    \/ \E value \in TypedCounts : SetPickedActual(value)
    \/ \E value \in TypedCounts : SetPackedActual(value)
    \/ handleSaveAll
    \/ \E callback \in timers : Tick(callback)
    \/ Unmount
    \/ MinutePasses

ViewSpec == ViewInit /\ [][ViewNext]_vars

(***************************************************************************)
(* The handlers of a control point record, each called once on a render    *)
(* with the settings and the cpData it closes over.                        *)
(***************************************************************************)
\* cpData has at most MaxRecords records
MaxRecords == 2

\* the actual counts of a record
RecordedCounts == {0, 400}

\* the records of cpData as the seed and the handlers make them
CheckpointRecords(viewSettings) ==
    {LET planned == IF viewSettings # Null
                    THEN calculateExpectedAtTime(viewSettings, time) ELSE Num(0)
     IN  [time |-> time, actualPacked |-> packed, actualPicked |-> picked,
          plannedPacked |-> planned, plannedPicked |-> planned] :
        time \in ControlPointTimes, packed \in RecordedCounts, picked \in RecordedCounts}

CheckpointLists(viewSettings) ==
    UNION {[1..n -> CheckpointRecords(viewSettings)] : n \in 1..MaxRecords}

HandlerInit ==
    /\ settings \in ViewSettings
    /\ now = 12 * 60
    /\ out = NoCall
    /\ \E cpData \in CheckpointLists(settings) :
          view = [NotMounted EXCEPT !.mounted = TRUE, !.initialRender = FALSE,
                                    !.settings = settings, !.cpData = cpData]
    /\ storage = Null
    /\ timers = {}
    /\ pending = {}

\* onChange of an actual count input of record index
UpdateCPField(index, field, value) ==
    /\ out = NoCall
    /\ index \in 1..Len(view.cpData)
    /\ out' = [fn |-> "updateCPField", index |-> index, field |-> field, value |-> value,
               newCPData |-> updateCPField(view.cpData, index, field, value)]
    /\ UNCHANGED <<settings, now, viewVars>>

\* onChange of the time input of record index
UpdateCPTime(index, value) ==
    /\ out = NoCall
    /\ index \in 1..Len(view.cpData)
    /\ out' = [fn |-> "updateCPTime", index |-> index, value |-> value,
               newCPData |-> updateCPTime(view.cpData, view.settings, index, value)]
    /\ UNCHANGED <<settings, now, viewVars>>

\* onClick of the delete button of record index
DeleteCP(index) ==
    /\ out = NoCall
    /\ index \in 1..Len(view.cpData)
    /\ out' = [fn |-> "deleteControlPoint", index |-> index,
               newCPData |-> DeleteControlPoint(view.cpData, index)]
    /\ UNCHANGED <<settings, now, viewVars>>

HandlerNext ==
    \/ \E index \in 1..MaxRecords, field \in {"actualPacked", "actualPicked"},
          value \in TypedCounts : UpdateCPField(index, field, value)
    \/ \E index \in 1..MaxRecords, value \in TypedTimes : UpdateCPTime(index, value)
    \/ \E index \in 1..MaxRecords : DeleteCP(index)

HandlerSpec == HandlerInit /\ [][HandlerNext]_vars

(***************************************************************************)
(* The analytics view (components/Analytics/Analytics.js): the series of   *)
(* its chart, read from the cpData of the 'updateData' item.               *)
(***************************************************************************)
\* the value of a property an object does not have
Undefined == [undefined |-> TRUE]

\* item[name]
Property(item, name) == IF name \in DOMAIN item THEN item[name] ELSE Undefined

\* savedUpdateData.cpData || []
HistoryOf(savedUpdateData) ==
    IF savedUpdateData = Null THEN << >> ELSE savedUpdateData.cpData

\* history.map(item => item[name]): the data of one dataset of the chart
Series(history, name) == [i \in 1..Len(history) |-> Property(history[i], name)]

\* the datasets of chartData: Planned Packing, Actual Packing, Planned Picking, Actual Picking
chartData(history) ==
    [labels |-> Series(history, "time"),
     plannedPacking |-> Series(history, "plannedPacking"),
     actualPacking |-> Series(history, "actualPacked"),
     plannedPicking |-> Series(history, "plannedPicking"),
     actualPicking |-> Series(history, "actualPicked")]

(***************************************************************************)
(* The figures the update view derives at each render from its state       *)
(* (UpdateData.js, before the return).                                     *)
(***************************************************************************)
\* Number(settings[name]): NaN for a field the settings do not have
NumberOfField(viewSettings, name) ==
    IF name \in DOMAIN viewSettings THEN Num(NumberOf(viewSettings[name])) ELSE NaN

\* x || 0 of a number or undefined: 0 for undefined, NaN and 0
OrZero(x) ==
    IF x = Undefined THEN Num(0)
    ELSE IF x = NaN \/ IsZero(x) THEN Num(0) ELSE x

\* Math.round
Round(x) == IF IsFinite(x) THEN Num((2 * x.n + x.d) \div (2 * x.d)) ELSE x

\* const requiredSpeed = deviations.requiredSpeed || 0
RequiredSpeedShown(v) == OrZero(Property(v.deviations, "requiredSpeed"))

\* recommendedPeoplePicking and recommendedPeoplePacking, by the settings field they divide by
RecommendedPeople(v, speedField) ==
    IF v.settings # Null
    THEN RDiv(RequiredSpeedShown(v), NumberOfField(v.settings, speedField))
    ELSE Num(0)

\* remainingHours
RemainingHours(v) ==
    IF OrZero(Property(v.deviations, "totalWorkTime")) # Num(0)
    THEN RSub(v.deviations.totalWorkTime, v.deviations.hoursPassed)
    ELSE Num(0)

\* requiredSpeedLastHourPicking and requiredSpeedLastHourPacking, by the actual count
RequiredSpeedLastHour(v, actual) ==
    LET remainingOrdersTotal ==
            IF v.settings # Null
            THEN RSub(NumberOfField(v.settings, "expectedOrders"), Num(actual))
            ELSE Num(0)
    IN  IF RGt(RemainingHours(v), Num(0))
        THEN RDiv(remainingOrdersTotal, RemainingHours(v))
        ELSE Num(0)

totalRemainingUnprocessedLastHour(v) ==
    IF v.settings # Null
    THEN LET staffLastHour == NumberOfField(v.settings, "staffForLastPeriod")
             avgPackingSpeed == NumberOfField(v.settings, "avgPackingSpeed")
         IN  RSub(RMul(staffLastHour, avgPackingSpeed),
                  RAdd(Round(RequiredSpeedLastHour(v, v.pickedActual)),
                       Round(RequiredSpeedLastHour(v, v.packedActual))))
    ELSE Num(0)

\* the text of statusDisplay
statusDisplay(v) ==
    IF RGe(totalRemainingUnprocessedLastHour(v), Num(0))
    THEN "Plan will be met on time"
    ELSE "Plan will not be met on time"

\* the block of the last hour indicators is rendered
LastHourShown(v) == v.settings # Null /\ RGt(RemainingHours(v), Num(0))

(***************************************************************************)
(* Properties.                                                             *)
(***************************************************************************)
\* the shift is configured: start and end are both set
Configured == ~Falsy(settings.shiftStart) /\ ~Falsy(settings.shiftEnd)

\* R = Number(settings.expectedOrders)
Orders == Num(NumberOf(settings.expectedOrders))

Recalculated == out.fn = "recalc"

Projected == out.fn = "calculateExpectedAtTime"

\* C1: for a configured shift, at every instant, a process whose actual count
\* has reached expectedOrders has deviation exactly 0.
C1_DeviationZeroOnceTargetReached ==
    (Recalculated /\ Configured) =>
        /\ (out.pickedActual >= NumberOf(settings.expectedOrders)
               => out.deviations.pickingDeviation = Num(0))
        /\ (out.packedActual >= NumberOf(settings.expectedOrders)
               => out.deviations.packingDeviation = Num(0))

\* the picked count has reached a positive target while the plan expects less than the target
C1_Witness ==
    /\ Recalculated /\ Configured
    /\ settings.expectedOrders = MaxOrders
    /\ out.pickedActual = MaxOrders
    /\ RLt(out.deviations.expectedProcessedPicking, Orders)
    /\ out.deviations.pickingDeviation = Num(0)

\* C2: when the total effective work time exceeds one hour, the required
\* speed of picking and of packing is at least baseSpeed = expectedOrders / T.
C2_RequiredSpeedFloor ==
    (Recalculated /\ Configured /\ RGt(out.deviations.totalWorkTime, Num(1))) =>
        LET baseSpeed == RDiv(Orders, out.deviations.totalWorkTime)
        IN  /\ RGe(out.deviations.requiredSpeedPicking, baseSpeed)
            /\ RGe(out.deviations.requiredSpeedPacking, baseSpeed)

\* T > 1 and the last-hour capacity exceeds the base speed, so the candidate speed lies below it
C2_Witness ==
    /\ Recalculated /\ Configured
    /\ RGt(out.deviations.totalWorkTime, Num(1))
    /\ RGt(Orders, Num(0))
    /\ RGt(Num(NumberOf(settings.staffForLastPeriod) * NumberOf(settings.avgSpeed)),
           RDiv(Orders, out.deviations.totalWorkTime))
    /\ REq(out.deviations.requiredSpeedPacking, RDiv(Orders, out.deviations.totalWorkTime))

\* C9: with shiftStart or shiftEnd unset calculateDeviations returns 0 in
\* every field and calculateExpectedAtTime returns 0 for both counts; so does
\* calculateExpectedAtTime when the control time is unset.
C9_UnconfiguredShiftGivesZeros ==
    /\ (Recalculated /\ ~Configured) =>
          \A f \in {"pickingDeviation", "packingDeviation", "hoursPassed",
                    "expectedProcessedPicking", "expectedProcessedPacking",
                    "requiredSpeedPicking", "requiredSpeedPacking", "totalWorkTime"} :
              out.deviations[f] = Num(0)
    /\ (Projected /\ (~Configured \/ Falsy(out.controlTime))) =>
          /\ out.expected.expectedPicking = Num(0)
          /\ out.expected.expectedPacking = Num(0)

\* calculateDeviations was applied with the shift end unset, the start set, a target,
\* a break and non-zero actual counts
C9_Witness ==
    /\ Recalculated
    /\ ~Falsy(settings.shiftStart) /\ Falsy(settings.shiftEnd)
    /\ settings.expectedOrders = MaxOrders
    /\ settings.breaks.form = "array" /\ Len(settings.breaks.items) > 0
    /\ out.pickedActual > 0 /\ out.packedActual > 0
    /\ out.deviations.totalWorkTime = Num(0)

\* an expected count is the product speed * hours when that is at most the target, the target otherwise
CappedProduct(expected, speed, hours) ==
    LET product == RMul(speed, hours)
    IN  /\ IF RLe(product, Orders) THEN REq(expected, product) ELSE REq(expected, Orders)
        /\ RLe(expected, Orders)

\* C3: for every configured shift and instant the expected counts of
\* calculateDeviations and of calculateExpectedAtTime equal requiredSpeed times
\* the effective hours elapsed when that is at most expectedOrders and
\* expectedOrders otherwise, and never exceed expectedOrders.
C3_ExpectedIsCappedProduct ==
    /\ (Recalculated /\ Configured) =>
          /\ CappedProduct(out.deviations.expectedProcessedPicking,
                           out.deviations.requiredSpeedPicking, out.deviations.hoursPassed)
          /\ CappedProduct(out.deviations.expectedProcessedPacking,
                           out.deviations.requiredSpeedPacking, out.deviations.hoursPassed)
    /\ (Projected /\ Configured /\ ~Falsy(out.controlTime)) =>
          /\ CappedProduct(out.expected.expectedPicking, SpeedAtTime(settings),
                           EffectiveHoursAt(settings, out.controlTime))
          /\ CappedProduct(out.expected.expectedPacking, SpeedAtTime(settings),
                           EffectiveHoursAt(settings, out.controlTime))

\* every break of the settings is an array entry with both times set and its end after its start
BreaksWellFormed ==
    /\ settings.breaks.form = "array"
    /\ \A i \in 1..Len(settings.breaks.items) :
          LET brk == settings.breaks.items[i]
          IN  /\ ~Falsy(brk.start) /\ ~Falsy(brk.end)
              /\ DateOf(parseTime(brk.start)) < DateOf(parseTime(brk.end))

ShiftEndAfterStart ==
    /\ Configured
    /\ DateOf(parseTime(settings.shiftStart)) < DateOf(parseTime(settings.shiftEnd))

\* C4: for a shift with its end after its start and breaks with end after
\* start, at every instant 0 <= hoursPassed <= totalWorkTime.
C4_HoursPassedWithinWorkTime ==
    (Recalculated /\ ShiftEndAfterStart /\ BreaksWellFormed) =>
        /\ RGe(out.deviations.hoursPassed, Num(0))
        /\ RLe(out.deviations.hoursPassed, out.deviations.totalWorkTime)

\* C5: calculateExpectedAtTime at the time of day of the current instant
\* returns the expected counts calculateDeviations returns at that instant.
C5_CheckpointConsistency ==
    (Projected /\ out.controlTime = TimeOfDay(now)) =>
        LET dev == calculateDeviations(settings, 0, 0, now)
        IN  /\ out.expected.expectedPicking = dev.expectedProcessedPicking
            /\ out.expected.expectedPacking = dev.expectedProcessedPacking

\* the figure a recommendation names for a deviation, per the claim: |deviation| / avgSpeed
ClaimedEmployees(deviation) ==
    ToFixed2(RDiv(RAbs(deviation), Num(NumberOf(settings.avgSpeed))))

\* C6: a negative deviation gives the add-employees text naming
\* |deviation| / avgSpeed employees, a positive one the remove-employees text
\* naming deviation / avgSpeed employees.
C6_RecommendationMagnitude ==
    Recalculated =>
        \A process \in {"picking", "packing"} :
            LET deviation == IF process = "picking" THEN out.deviations.pickingDeviation
                             ELSE out.deviations.packingDeviation
                rec == out.recommendations[process]
            IN  /\ RLt(deviation, Num(0)) =>
                      (rec.text = "add" /\ rec.employees = ClaimedEmployees(deviation))
                /\ RGt(deviation, Num(0)) =>
                      (rec.text = "remove" /\ rec.employees = ClaimedEmployees(deviation))

\* C7: with avgSpeed missing or zero every staffing figure of
\* calculateRecommendations and calculateLastHourIndicators is 0.
C7_ZeroSpeedGivesZeroStaffing ==
    NumberOf(settings.avgSpeed) = 0 =>
        /\ Recalculated =>
              \A process \in {"picking", "packing"} :
                  out.recommendations[process].text \in {"add", "remove"}
                      => out.recommendations[process].employees = Num(0)
        /\ out.fn = "calculateLastHourIndicators" =>
              /\ out.indicators.staffNeededPicking = Num(0)
              /\ out.indicators.staffNeededPacking = Num(0)

\* C8: when the total effective work time is at most 0 the required speeds
\* and expected counts of calculateDeviations and calculateExpectedAtTime are
\* finite numbers.
C8_NonPositiveWorkTimeIsGuarded ==
    /\ (Recalculated /\ Configured /\ RLe(out.deviations.totalWorkTime, Num(0))) =>
          /\ IsFinite(out.deviations.requiredSpeedPicking)
          /\ IsFinite(out.deviations.requiredSpeedPacking)
          /\ IsFinite(out.deviations.expectedProcessedPicking)
          /\ IsFinite(out.deviations.expectedProcessedPacking)
    /\ (Projected /\ Configured /\ ~Falsy(out.controlTime)
          /\ RLe(TotalWorkTimeAtTime(settings), Num(0))) =>
          /\ IsFinite(out.expected.expectedPicking)
          /\ IsFinite(out.expected.expectedPacking)

\* the settings without the break entries that miss a start or an end
WithoutMalformedBreaks ==
    [settings EXCEPT !.breaks.items =
        SelectSeq(settings.breaks.items, LAMBDA brk : ~Falsy(brk.start) /\ ~Falsy(brk.end))]

\* C10: a break entry with a missing start or end contributes 0 to the total
\* and to the elapsed break duration, in calculateDeviations and in
\* calculateExpectedAtTime, for breaks given as an array and as a string: the
\* results are those of the settings without such entries.
C10_MalformedBreaksContributeNothing ==
    /\ (Recalculated /\ Configured) =>
          LET dev == calculateDeviations(WithoutMalformedBreaks, out.pickedActual,
                                         out.packedActual, now)
          IN  /\ out.deviations.totalWorkTime = dev.totalWorkTime
              /\ out.deviations.hoursPassed = dev.hoursPassed
    /\ (Projected /\ Configured) =>
          out.expected = calculateExpectedAtTime(WithoutMalformedBreaks, out.controlTime)

\* the elapsed part of one break at a reference instant, case by case: the break
\* ended at or before it, it lies strictly inside the break, the break starts at or after it
ElapsedOfBreak(brk, reference) ==
    LET breakStart == DateOf(parseTime(brk.start))
        breakEnd == DateOf(parseTime(brk.end))
    IN  CASE breakEnd <= reference -> Fin(breakEnd - breakStart, 60)
          [] breakStart < reference /\ reference < breakEnd -> Fin(reference - breakStart, 60)
          [] breakStart >= reference -> Num(0)

RECURSIVE ElapsedBreakHours(_, _)
ElapsedBreakHours(items, reference) ==
    IF items = << >> THEN Num(0)
    ELSE RAdd(ElapsedOfBreak(Head(items), reference),
              ElapsedBreakHours(Tail(items), reference))

\* C11: for every list of well-formed breaks and every reference instant the
\* elapsed break duration, in calculateDeviations and in
\* calculateExpectedAtTime, is the sum over the breaks of the full duration of
\* a break that ended at or before the reference, reference - start of a break
\* the reference lies strictly inside, and 0 for a break starting at or after it;
\* hoursPassed is the raw elapsed time less that sum.
C11_ElapsedBreakTime ==
    /\ (Recalculated /\ Configured /\ BreaksWellFormed) =>
          LET elapsed == ElapsedBreakHours(settings.breaks.items, now)
          IN  /\ BreakTimePassed(settings.breaks, now) = elapsed
              /\ out.deviations.hoursPassed =
                    RSub(RawHoursPassed(DateOf(parseTime(settings.shiftStart)),
                                        TotalShiftHours(settings), now), elapsed)
    /\ (Projected /\ Configured /\ ~Falsy(out.controlTime) /\ BreaksWellFormed) =>
          LET cpDate == DateOf(parseTime(out.controlTime))
          IN  BreakBefore(settings.breaks, cpDate)
                  = ElapsedBreakHours(settings.breaks.items, cpDate)

\* breaks 09:00-09:15 and 12:00-12:30 at 12:10: 15 + 10 = 25 minutes have elapsed
C11_Witness ==
    /\ Recalculated
    /\ settings.breaks.items = DayBreaks
    /\ now = 12 * 60 + 10
    /\ BreakTimePassed(settings.breaks, now) = Fin(25, 60)
    /\ out.deviations.hoursPassed = RSub(Fin(250, 60), Fin(25, 60))

\* the sum of the durations of the well-formed entries of a break list, in hours
RECURSIVE WellFormedBreakHours(_)
WellFormedBreakHours(items) ==
    IF items = << >> THEN Num(0)
    ELSE LET brk == Head(items)
             rest == WellFormedBreakHours(Tail(items))
         IN  IF Falsy(brk.start) \/ Falsy(brk.end) THEN rest
             ELSE RAdd(Fin(DateOf(parseTime(brk.end)) - DateOf(parseTime(brk.start)), 60), rest)

\* C12: for every configured shift totalWorkTime returned by
\* calculateDeviations is (shiftEnd - shiftStart) minus the sum of the durations
\* of the well-formed breaks, whatever the reference instant.
C12_TotalWorkTime ==
    (Recalculated /\ Configured) =>
        out.deviations.totalWorkTime =
            RSub(Fin(DateOf(parseTime(settings.shiftEnd))
                       - DateOf(parseTime(settings.shiftStart)), 60),
                 WellFormedBreakHours(settings.breaks.items))

\* the shift 08:00-16:00 without breaks, 800 expected orders, average speed 25,
\* 2 employees for the last period, recalculated at 12:00 with 400 orders packed
DayScenario ==
    /\ Recalculated
    /\ settings.shiftStart = Time24(8, 0) /\ settings.shiftEnd = Time24(16, 0)
    /\ settings.breaks.items = << >>
    /\ settings.expectedOrders = 800 /\ settings.avgSpeed = 25
    /\ settings.staffForLastPeriod = 2
    /\ now = 12 * 60
    /\ out.packedActual = 400

\* C13: in that scenario calculateDeviations returns requiredSpeedPacking =
\* 750/7, hoursPassed = 4, expectedProcessedPacking = 3000/7 and
\* packingDeviation = -200/7.
C13_EndToEndScenario ==
    DayScenario =>
        /\ out.deviations.requiredSpeedPacking = Fin(750, 7)
        /\ out.deviations.hoursPassed = Num(4)
        /\ out.deviations.expectedProcessedPacking = Fin(3000, 7)
        /\ out.deviations.packingDeviation = Fin(-200, 7)

\* the scenario was recalculated, with 800 orders picked, and packing is behind the plan
C13_Witness ==
    /\ DayScenario
    /\ out.pickedActual = 800
    /\ RLt(out.deviations.packingDeviation, Num(0))
    /\ out.recommendations.packing.text = "add"

\* the field of the deviations record holding the deviation of a process
DeviationField(process) ==
    IF process = "picking" THEN "pickingDeviation" ELSE "packingDeviation"

OtherProcess(process) == IF process = "picking" THEN "packing" ELSE "picking"

\* deviations of either sign, zero, and the results of a division by zero
SampleDeviations == {Num(-3), Num(0), Fin(7, 2), Infinity, NegInfinity, NaN}

\* C14: calculateRecommendations gives each process a text chosen by the sign
\* of that process's own deviation: negative the add-employees text, positive
\* the remove-employees text, zero the plan-is-met-exactly text; the text of a
\* process is the same whatever the deviation of the other process.
C14_RecommendationSignMapping ==
    Recalculated =>
        \A process \in {"picking", "packing"} :
            LET deviation == out.deviations[DeviationField(process)]
                text == out.recommendations[process].text
            IN  /\ RLt(deviation, Num(0)) => text = "add"
                /\ RGt(deviation, Num(0)) => text = "remove"
                /\ IsZero(deviation) => text = "exact"
                /\ \A other \in SampleDeviations :
                      calculateRecommendations(
                          [out.deviations EXCEPT ![DeviationField(OtherProcess(process))] = other],
                          settings)[process].text = text

\* picking is ahead of the plan while packing is behind it
C14_Witness ==
    /\ Recalculated
    /\ RGt(out.deviations.pickingDeviation, Num(0))
    /\ RLt(out.deviations.packingDeviation, Num(0))
    /\ out.recommendations.picking.text = "remove"
    /\ out.recommendations.packing.text = "add"

\* C15: every cpData record the update view creates and persists in the
\* updateData item has the fields time, plannedPicking, plannedPacking,
\* actualPicked and actualPacked, so the planned series the analytics view
\* reads are defined for every persisted record.
C15_PersistedCheckpointShape ==
    LET history == HistoryOf(storage)
    IN  \A i \in 1..Len(history) :
            /\ {"time", "plannedPicking", "plannedPacking", "actualPicked", "actualPacked"}
                  \subseteq DOMAIN history[i]
            /\ chartData(history).plannedPacking[i] # Undefined
            /\ chartData(history).plannedPicking[i] # Undefined

\* the updateData item holding the current pickedActual, packedActual and cpData
PersistedIsCurrent == storage = JsonRoundTrip(DataToSave(view))

\* pickedActual, packedActual or cpData differ from their initial values, or an
\* item was persisted: the view has changed them since its first render, or loaded them
ChangedOrPersisted == DataToSave(view) # DataToSave(NotMounted) \/ storage # Null

LiveTimer == IF view.mounted THEN view.timer ELSE {}

\* C17: every interval timer the update view starts is cleared when the effect
\* that started it is cleaned up: the running timers are at most the timer of
\* the live timer effect, so every timer callback that fires belongs to the
\* mounted view and to its current recalc, never to a view that was torn down
\* or to a superseded effect.
C17_TimerCancellation ==
    /\ [](timers \subseteq LiveTimer)
    /\ [][\A callback \in timers :
             Tick(callback) => (view.mounted /\ view.timer = {callback})]_vars

\* settings were loaded and a count was edited: the timers of the two earlier
\* recalc callbacks were cleared, the one running calls the current recalc
C17_Witness ==
    /\ Idle
    /\ view.settings # Null
    /\ view.pickedActual = 400
    /\ timers = {RecalcOf(view)}
    /\ view.timer = timers

Parsed == out.fn = "parseTime"

\* C18: parseTime of a string with a space delimiter, for every hour h in
\* 1..12, minute m and meridiem in any letter case: 12 AM gives hour 0, h AM
\* with h < 12 gives h, h PM with h < 12 gives h + 12, 12 PM gives 12, and the
\* minutes are unchanged; of a string without a space: the hour and the minute
\* as written.
C18_ParseTimeTwelveHour ==
    Parsed =>
        LET h == out.timeStr.hh
            m == out.timeStr.mm
            meridiem == out.timeStr.mod
        IN  /\ (meridiem \in {"AM", "am", "Am", "aM"} /\ h \in 1..12) =>
                  out.parsed = [hours |-> IF h = 12 THEN 0 ELSE h, minutes |-> m]
            /\ (meridiem \in {"PM", "pm", "Pm", "pM"} /\ h \in 1..12) =>
                  out.parsed = [hours |-> IF h = 12 THEN 12 ELSE h + 12, minutes |-> m]
            /\ meridiem = "" => out.parsed = [hours |-> h, minutes |-> m]

\* "12:30 am" was parsed to 00:30
C18_Witness ==
    /\ Parsed
    /\ out.timeStr = [hh |-> 12, mm |-> 30, mod |-> "am"]
    /\ out.parsed = [hours |-> 0, minutes |-> 30]

\* reference - shiftStart in hours, clamped to [0, total shift duration]
ClampedElapsed(reference) ==
    LET shiftStartDate == DateOf(parseTime(settings.shiftStart))
        shiftEndDate == DateOf(parseTime(settings.shiftEnd))
    IN  IF reference <= shiftStartDate THEN Num(0)
        ELSE IF reference >= shiftEndDate THEN Fin(shiftEndDate - shiftStartDate, 60)
        ELSE Fin(reference - shiftStartDate, 60)

\* C19: in calculateDeviations (reference = now) and in
\* calculateExpectedAtTime (reference = control time) the raw elapsed time is
\* reference - shiftStart clamped to [0, total shift duration]: 0 before the
\* shift start, the total shift duration after the shift end.
C19_RawElapsedClamp ==
    /\ (Recalculated /\ ShiftEndAfterStart) =>
          RawHoursPassed(DateOf(parseTime(settings.shiftStart)), TotalShiftHours(settings), now)
              = ClampedElapsed(now)
    /\ (Projected /\ ShiftEndAfterStart /\ ~Falsy(out.controlTime)) =>
          RawHoursAt(settings, out.controlTime)
              = ClampedElapsed(DateOf(parseTime(out.controlTime)))

\* C20: with total effective work time T > 1 and non-negative expectedOrders
\* R, avgSpeed and staffForLastPeriod, working at the returned required speed
\* for the T - 1 non-final hours leaves at most capacityLastHour =
\* staffForLastPeriod * avgSpeed orders for the last hour, and exactly that many
\* whenever the required speed equals the candidate speed (R - capacityLastHour) / (T - 1).
C20_LastHourReserve ==
    (Recalculated /\ Configured /\ RGt(out.deviations.totalWorkTime, Num(1))) =>
        LET T == out.deviations.totalWorkTime
            capacityLastHour ==
                Num(NumberOf(settings.staffForLastPeriod) * NumberOf(settings.avgSpeed))
            candidateSpeed == RDiv(RSub(Orders, capacityLastHour), RSub(T, Num(1)))
        IN  \A requiredSpeed \in {out.deviations.requiredSpeedPicking,
                                  out.deviations.requiredSpeedPacking} :
                LET left == remainingOrdersLastHour(Orders, T, requiredSpeed)
                IN  /\ RLe(left, capacityLastHour)
                    /\ REq(requiredSpeed, candidateSpeed) => REq(left, capacityLastHour)

\* 2 employees at speed 25 for the last hour: the candidate speed exceeds the base
\* speed, and 50 of the 800 orders are left for the last hour
C20_Witness ==
    /\ Recalculated
    /\ settings.staffForLastPeriod = 2
    /\ settings.breaks.items = DayBreaks
    /\ RGt(out.deviations.requiredSpeedPacking, RDiv(Orders, out.deviations.totalWorkTime))
    /\ remainingOrdersLastHour(Orders, out.deviations.totalWorkTime,
                               out.deviations.requiredSpeedPacking) = Num(50)

\* C21: with T > 1 and R > 0 the required speed is strictly greater than
\* baseSpeed = R / T exactly when baseSpeed exceeds the last-hour capacity
\* staffForLastPeriod * avgSpeed, and equals baseSpeed otherwise.
C21_FrontLoadingCondition ==
    (Recalculated /\ Configured /\ RGt(out.deviations.totalWorkTime, Num(1))
        /\ RGt(Orders, Num(0))) =>
        LET baseSpeed == RDiv(Orders, out.deviations.totalWorkTime)
            capacityLastHour ==
                Num(NumberOf(settings.staffForLastPeriod) * NumberOf(settings.avgSpeed))
        IN  \A requiredSpeed \in {out.deviations.requiredSpeedPicking,
                                  out.deviations.requiredSpeedPacking} :
                IF RGt(baseSpeed, capacityLastHour)
                THEN RGt(requiredSpeed, baseSpeed)
                ELSE REq(requiredSpeed, baseSpeed)

\* 8 employees at speed 25 in the last hour cover more than the base rate of
\* 800 orders in 7.25 hours: the required speed is the base speed
C21_Witness ==
    /\ Recalculated
    /\ settings.staffForLastPeriod = 8
    /\ settings.breaks.items = DayBreaks
    /\ out.deviations.totalWorkTime = Fin(29, 4)
    /\ out.deviations.requiredSpeedPicking = Fin(3200, 29)

\* C22: for every shift, breaks, expectedOrders, staffForLastPeriod and
\* reference instant, with the unified variant's avgPackingSpeed equal to
\* avgSpeed, requiredSpeedPicking and requiredSpeedPacking of calculateDeviations
\* both are the requiredSpeed of the unified calculateDeviations, and
\* hoursPassed and totalWorkTime are the same in the two variants.
C22_VariantCollapse ==
    Recalculated =>
        LET unified == calculateDeviationsUnified(UnifiedSettings(settings), out.pickedActual,
                                                  out.packedActual, now)
        IN  /\ out.deviations.requiredSpeedPicking = unified.requiredSpeed
            /\ out.deviations.requiredSpeedPacking = unified.requiredSpeed
            /\ out.deviations.hoursPassed = unified.hoursPassed
            /\ out.deviations.totalWorkTime = unified.totalWorkTime

C22_Witness ==
    /\ Recalculated /\ settings.staffForLastPeriod = 2 /\ settings.breaks.items = DayBreaks
    /\ now = 12 * 60 + 10
    /\ LET unified == calculateDeviationsUnified(UnifiedSettings(settings), out.pickedActual,
                                                 out.packedActual, now)
       IN  /\ unified.requiredSpeed = Fin(120, 1)
           /\ unified.hoursPassed = Fin(15, 4)
           /\ out.deviations.requiredSpeedPacking = Fin(120, 1)

\* the cpData the view renders next when the seed does not act: the stored
\* one when the load effect is due, the rendered one otherwise
CpDataUnlessSeeded ==
    IF "load" \in pending /\ storage # Null THEN storage.cpData ELSE view.cpData

\* the stored updateData item has no cpData, or an empty one
NoPersistedCpData == storage = Null \/ Len(storage.cpData) = 0

\* cpData has one record per control point, in order, with its time and no actual counts
IsSeedOf(cpData, controlPoints) ==
    /\ Len(cpData) = Len(controlPoints)
    /\ \A i \in 1..Len(controlPoints) :
          /\ cpData[i].time = controlPoints[i].time
          /\ cpData[i].actualPacked = 0
          /\ cpData[i].actualPicked = 0

C24_CheckpointTimeEdit ==
    LET cpData == view.cpData
        newCPData == out.newCPData
        i == out.index
        othersKept == /\ Len(newCPData) = Len(cpData)
                      /\ \A j \in 1..Len(cpData) : j # i => newCPData[j] = cpData[j]
    IN  /\ out.fn = "updateCPTime" =>
              LET planned == IF Falsy(out.value) \/ view.settings = Null THEN Num(0)
                             ELSE calculateExpectedAtTime(view.settings, out.value)
              IN  /\ othersKept
                  /\ newCPData[i].time = out.value
                  /\ newCPData[i].plannedPacked = planned
                  /\ newCPData[i].plannedPicked = planned
                  /\ newCPData[i].actualPacked = cpData[i].actualPacked
                  /\ newCPData[i].actualPicked = cpData[i].actualPicked
        /\ out.fn = "updateCPField" =>
              /\ othersKept
              /\ DOMAIN newCPData[i] = DOMAIN cpData[i]
              /\ newCPData[i][out.field] = out.value
              /\ \A g \in DOMAIN cpData[i] : g # out.field => newCPData[i][g] = cpData[i][g]

\* the time of the first of two records, which has actual counts, is set to 14:00
C24_Witness ==
    /\ out.fn = "updateCPTime" /\ out.index = 1 /\ out.value = Time24(14, 0)
    /\ view.settings # Null
    /\ Len(view.cpData) = 2
    /\ view.cpData[1].actualPacked = 400
    /\ view.cpData[1].time = Time24(12, 0)
    /\ RGt(out.newCPData[1].plannedPacked.expectedPacking, Num(0))

\* deviations and recommendations are those of a recalc from the settings and the
\* actual counts of the view, at an instant since the view was opened
RecomputedFromCurrent ==
    \E instant \in (12 * 60)..now :
        LET calcDev == calculateDeviations(view.settings, view.pickedActual,
                                           view.packedActual, instant)
        IN  /\ view.deviations = calcDev
            /\ view.recommendations = calculateRecommendations(calcDev, view.settings)

\* once the effects of a view with settings have run, its results are recomputed
RecomputedWhenIdle == (Idle /\ view.settings # Null) => RecomputedFromCurrent

\* C25: while settings are loaded, after any change of pickedActual,
\* packedActual or settings, once the effects of the change have run, deviations
\* and recommendations are recomputed from the new values; and every firing of
\* the interval timer calls the recalc of the current pickedActual,
\* packedActual and settings, never one of earlier values.
C25_RecomputeOnChange ==
    /\ []RecomputedWhenIdle
    /\ [][\A callback \in timers :
             (Tick(callback) /\ view.mounted) => callback = RecalcOf(view)]_vars

\* every break lies inside the shift window and no two breaks overlap
BreaksInsideShift ==
    LET Start(brk) == DateOf(parseTime(brk.start))
        End(brk) == DateOf(parseTime(brk.end))
        items == settings.breaks.items
    IN  /\ BreaksWellFormed
        /\ \A i \in 1..Len(items) :
              /\ DateOf(parseTime(settings.shiftStart)) <= Start(items[i])
              /\ End(items[i]) <= DateOf(parseTime(settings.shiftEnd))
        /\ \A i, j \in 1..Len(items) :
              i < j => (End(items[i]) <= Start(items[j]) \/ End(items[j]) <= Start(items[i]))

\* the instants of the day up to now, ten minutes apart
EarlierInstants == {instant \in {now - 10 * i : i \in 0..MaxTick} : instant >= 0}

\* C26: for settings with the shift end after the shift start and
\* non-overlapping breaks inside the shift window, hoursPassed,
\* expectedProcessedPicking and expectedProcessedPacking at an instant are never
\* less than those at an earlier instant; hoursPassed is 0 up to the shift
\* start and equals totalWorkTime from the shift end on.
C26_MonotoneProgress ==
    (Recalculated /\ ShiftEndAfterStart /\ BreaksInsideShift) =>
        /\ \A instant \in EarlierInstants :
              LET earlier == calculateDeviations(settings, out.pickedActual,
                                                 out.packedActual, instant)
              IN  /\ ~RLt(out.deviations.hoursPassed, earlier.hoursPassed)
                  /\ ~RLt(out.deviations.expectedProcessedPicking, earlier.expectedProcessedPicking)
                  /\ ~RLt(out.deviations.expectedProcessedPacking, earlier.expectedProcessedPacking)
        /\ now <= DateOf(parseTime(settings.shiftStart)) =>
              out.deviations.hoursPassed = Num(0)
        /\ now >= DateOf(parseTime(settings.shiftEnd)) =>
              out.deviations.hoursPassed = out.deviations.totalWorkTime

\* after the shift end of the day with both breaks: 7.25 hours passed, all 800 orders expected
C26_Witness ==
    /\ Recalculated /\ settings.breaks.items = DayBreaks
    /\ now = 16 * 60 + 30
    /\ out.deviations.hoursPassed = Fin(29, 4)
    /\ out.deviations.totalWorkTime = Fin(29, 4)
    /\ out.deviations.expectedProcessedPacking = Num(800)
    /\ calculateDeviations(settings, out.pickedActual, out.packedActual,
                           12 * 60 + 10).hoursPassed = Fin(15, 4)

\* the view shows the results of a recalc with its settings
ResultsShown == view.mounted /\ view.settings # Null /\ view.deviations # EmptyObject

\* C27: while settings are loaded, the required overall speed the view shows,
\* and divides to get the recommended staff for picking and for packing, is the
\* required speed calculateDeviations returned, and the divisor is the
\* per-worker speed the settings view saves (avgSpeed).
C27_DisplayedRequiredSpeed ==
    ResultsShown =>
        LET perWorker == NumberOfField(view.settings, "avgSpeed")
        IN  /\ RequiredSpeedShown(view) = view.deviations.requiredSpeedPacking
            /\ RequiredSpeedShown(view) = view.deviations.requiredSpeedPicking
            /\ RecommendedPeople(view, "avgPickingSpeed")
                  = RDiv(view.deviations.requiredSpeedPicking, perWorker)
            /\ RecommendedPeople(view, "avgPackingSpeed")
                  = RDiv(view.deviations.requiredSpeedPacking, perWorker)

\* C28: for every cpData record with a time in the rendered control point
\* block, the value formatted as the planned figure and subtracted from the
\* actual counts is a number, the expected count calculateExpectedAtTime
\* returns for that time; no render of the view throws.
C28_CheckpointRenderingErrorFree ==
    /\ ~view.thrown
    /\ \A index \in 1..Len(view.cpData) :
          Rendered(view, index) =>
              /\ IsNumber(expectedAtCP(view, index))
              /\ expectedAtCP(view, index)
                    = calculateExpectedAtTime(view.settings, view.cpData[index].time).expectedPacking

\* pickedActual, packedActual and, when it is not empty, cpData of the stored
\* item are those of the item before
ActualsKept(before, after) ==
    /\ after # Null
    /\ after.pickedActual = before.pickedActual
    /\ after.packedActual = before.packedActual
    /\ Len(before.cpData) > 0 => after.cpData = before.cpData

\* C29: when the view is opened while an updateData item exists, the first run
\* of its effects does not write the item and loads pickedActual, packedActual
\* and a non-empty cpData from it; and no later run of the effects of a view
\* showing the stored values changes the stored pickedActual, packedActual or
\* non-empty cpData: after the mount effects the item holds what it held
\* before the mount, never the initial state of the view.
C29_MountKeepsPersistedActuals ==
    [][(RunEffects /\ storage # Null) =>
          /\ "load" \in pending =>
                /\ storage' = storage
                /\ ActualsKept(storage, DataToSave(view'))
          /\ ("load" \notin pending /\ ActualsKept(storage, DataToSave(view))) =>
                ActualsKept(storage, storage')]_vars

\* the first run of the effects of a view opened on an item with 400 picked orders
C29_Witness ==
    /\ view.mounted /\ ~view.initialRender
    /\ "load" \notin pending /\ pending # {}
    /\ view.settings # Null /\ view.deviations = EmptyObject
    /\ storage # Null
    /\ storage.pickedActual = 400
    /\ view.pickedActual = 400

\* C30: with the settings the settings view saves and time remaining in the
\* shift, the status shown is 'Plan will be met on time' whenever pickedActual
\* and packedActual have both reached expectedOrders, and in general exactly
\* when staffForLastPeriod times the per-worker speed (avgSpeed) is at least the
\* sum of the two rounded remaining hourly rates.
C30_LastHourStatus ==
    (view.mounted /\ LastHourShown(view)) =>
        LET R == NumberOfField(view.settings, "expectedOrders")
            capacity == RMul(NumberOfField(view.settings, "staffForLastPeriod"),
                             NumberOfField(view.settings, "avgSpeed"))
            rates == RAdd(Round(RequiredSpeedLastHour(view, view.pickedActual)),
                          Round(RequiredSpeedLastHour(view, view.packedActual)))
            met == statusDisplay(view) = "Plan will be met on time"
        IN  /\ (RGe(Num(view.pickedActual), R) /\ RGe(Num(view.packedActual), R)) => met
            /\ met <=> RGe(capacity, rates)

====
